---- MODULE Spec2Model ----
(***************************************************************************)
(* orgcryptx: per-wallet ledger reconstruction.                            *)
(*   main.py            Wallet, TokenTransfer, TransactionOrganizer        *)
(*   ContractStorage.py ContractStorage (contract metadata resolver)       *)
(*                                                                         *)
(* Decimal amounts are represented as integers counting quanta of          *)
(* 10^-DecimalPlaces; chain amounts given in wei are expressed in units of *)
(* 10^(18-DecimalPlaces) wei, so that Web3.fromWei(.., "ether") is exact.  *)
(***************************************************************************)
EXTENDS Integers, Sequences, FiniteSets, TLC

VARIABLES
    \* ---- main.py ----
    address,      \* TransactionOrganizer.address (as given in config.addresses)
    chain,        \* what the providers report for the address (input of extract)
    wallet,       \* the Wallet built by extract, or NoWallet
    outcome,      \* how the last operation of the ledger ended
    fees_paid,    \* tx hash -> fee debited by the last replay ("fees paid" log)
    \* ---- ContractStorage.py (class attributes) and its collaborators ----
    env,          \* what explorer and chain report for each contract address
    initialized,  \* ContractStorage.initialized
    cache,        \* ContractStorage.cache: address -> contract
    network,      \* ContractStorage.network / ContractStorage.web3
    files,        \* the files under ABI_CACHE_PATH
    last,         \* record of the last get_contract call
    prev,         \* record of the get_contract call before it
    ncalls,       \* number of get_contract calls made so far
    resolved,     \* what get_contract returned for the keys it looked up, by run
    \* ---- concurrent callers of get_contract ----
    flows,
    \* ---- inputs and result of the pure functions ----
    pure

vars == <<address, chain, wallet, outcome, fees_paid,
          env, initialized, cache, network, files, last, prev, ncalls, resolved,
          flows, pure>>

ledgerVars == <<address, chain, wallet, outcome, fees_paid>>
resolverVars == <<env, initialized, cache, network, files, last, prev, ncalls, resolved>>

-----------------------------------------------------------------------------
(* Bounds *)

\* number of decimal places carried by the integer representation of Decimal
DecimalPlaces == 2
\* largest number of records one provider snapshot holds (all listings together)
MaxRecords == 4
\* largest number of get_contract calls in one behaviour
MaxCalls == 2
\* flows that call get_contract at the same time
MaxFlows == 2
\* significant digits the Decimal context keeps in the result of an arithmetic
\* operation (28 in Python), scaled to the integers of the model
DecimalPrecision == 4
\* largest number of transfers built from raw values in one behaviour
MaxBuilt == 2
\* largest number of replays of one wallet in one behaviour
MaxReplays == 2

-----------------------------------------------------------------------------
(* Values *)

Networks == {"AVAX", "ETHE"}

\* addresses as the providers spell them: web3 returns the checksummed form,
\* the explorer listings the lower-case form
WalletSum == "0xW"
Checksummed == {"0xW", "0xC1", "0xC2", "0xC3"}

Lower(a) ==
    CASE a = "0xW" -> "0xw"
      [] a = "0xC1" -> "0xc1"
      [] a = "0xC2" -> "0xc2"
      [] a = "0xC3" -> "0xc3"
      [] OTHER -> a

EmptyBalances == [x \in {} |-> 0]

NoWallet ==
    [address |-> "None", network |-> "None", transfers |-> <<>>,
     balances |-> EmptyBalances]

RECURSIVE Pow10(_)
Pow10(n) == IF n = 0 THEN 1 ELSE 10 * Pow10(n - 1)

\* Web3.fromWei(amount, "ether"): exact, see the representation note above
FromWei(amount) == amount

\* Decimal(n) of an integer or of a string of digits
ToDecimal(n) == n * Pow10(DecimalPlaces)

\* number of decimal digits of a natural number
RECURSIVE Digits(_)
Digits(n) == IF n < 10 THEN 1 ELSE 1 + Digits(n \div 10)

\* the Decimal context rounds the result of /, + and - to its precision,
\* half to even; Decimal(x) itself keeps every digit of x
ContextRound(n) ==
    LET a == IF n < 0 THEN 0 - n ELSE n
        k == Digits(a)
        m == IF k > DecimalPrecision THEN Pow10(k - DecimalPrecision) ELSE 1
        q == a \div m
        r == a % m
        up == 2 * r > m \/ (2 * r = m /\ q % 2 = 1)
        c == IF k <= DecimalPrecision THEN a
             ELSE (IF up THEN q + 1 ELSE q) * m
    IN  IF n < 0 THEN 0 - c ELSE c

\* int(token_decimals) of the strings the explorer reports
IntOf(s) == CASE s = "0" -> 0 [] s = "1" -> 1 [] s = "2" -> 2

\* value is a Decimal already (ToDecimal of the raw string, or a fromWei result)
TokenTransfer(from_addr, to_addr, value, gas_used, gas_price, net, token_symbol, token_decimals, token_type, timestamp, tx_hash) ==
    [from_addr |-> from_addr,
     to_addr |-> to_addr,
     value |-> IF token_decimals # "None"
               THEN ContextRound(value \div Pow10(IntOf(token_decimals)))
               ELSE value,
     fees |-> FromWei(gas_used * gas_price),
     network |-> net,
     token_symbol |-> token_symbol,
     token_type |-> token_type,
     timestamp |-> timestamp,
     tx_hash |-> tx_hash]

-----------------------------------------------------------------------------
(* Wallet.replay_transfers *)

\* a key without the fee tie-break: key=lambda t : t.timestamp
KeyLess_timestamp(a, b) == a.timestamp < b.timestamp

\* key=lambda t : (t.timestamp, -t.fees), compared as tuples
KeyLess(a, b) ==
    \/ a.timestamp < b.timestamp
    \/ a.timestamp = b.timestamp /\ (0 - a.fees) < (0 - b.fees)

\* sorted() is stable: an element goes after every element whose key is not larger
RECURSIVE InsertByKey(_, _)
InsertByKey(t, s) ==
    IF s = <<>> THEN <<t>>
    ELSE IF KeyLess(t, Head(s)) THEN <<t>> \o s
    ELSE <<Head(s)>> \o InsertByKey(t, Tail(s))

RECURSIVE sorted(_)
sorted(transfers) ==
    IF transfers = <<>> THEN <<>>
    ELSE InsertByKey(transfers[Len(transfers)],
                     sorted(SubSeq(transfers, 1, Len(transfers) - 1)))

\* defaultdict(int): a missing key reads as 0 and is created by the access
BalGet(balances, k) == IF k \in DOMAIN balances THEN balances[k] ELSE 0
\* an assignment that writes the value under every key
BalSet_every(balances, k, v) == [x \in (DOMAIN balances) \cup {k} |-> v]

BalSet(balances, k, v) ==
    [x \in (DOMAIN balances) \cup {k} |-> IF x = k THEN v ELSE balances[x]]

\* assert bal >= 0 for every item of self.balances
AllNonNegative(balances) == \A k \in DOMAIN balances : balances[k] >= 0

ReplayInit ==
    [balances |-> EmptyBalances, seen_tx_hashes |-> {}, raised |-> FALSE,
     fees_paid |-> [h \in {} |-> 0]]

\* one iteration of "for tx in sequence"
ReplayStep(st, tx, self_address) ==
    IF st.raised THEN st
    ELSE
      LET isNew == tx.tx_hash \notin st.seen_tx_hashes
          isSender == Lower(tx.from_addr) = Lower(self_address)
          isRecipient == Lower(tx.to_addr) = Lower(self_address)
          charged == isNew /\ isSender
          b1 == IF charged
                THEN BalSet(st.balances, tx.network,
                            ContextRound(BalGet(st.balances, tx.network) - tx.fees))
                ELSE st.balances
          paid1 == IF charged
                   THEN BalSet(st.fees_paid, tx.tx_hash,
                               BalGet(st.fees_paid, tx.tx_hash) + tx.fees)
                   ELSE st.fees_paid
          seen1 == st.seen_tx_hashes \cup {tx.tx_hash}
          st1 == [balances |-> b1, seen_tx_hashes |-> seen1, raised |-> FALSE,
                  fees_paid |-> paid1]
      IN  IF isNew /\ ~AllNonNegative(b1) THEN [st1 EXCEPT !.raised = TRUE]
          ELSE IF tx.value = 0 THEN st1
          ELSE IF isSender
               THEN [st1 EXCEPT !.balances =
                        BalSet(b1, tx.token_symbol,
                               ContextRound(BalGet(b1, tx.token_symbol) - tx.value))]
          ELSE IF isRecipient
               THEN [st1 EXCEPT !.balances =
                        BalSet(b1, tx.token_symbol,
                               ContextRound(BalGet(b1, tx.token_symbol) + tx.value))]
          \* the cumulative-balance log line reads the key and so creates it
          ELSE [st1 EXCEPT !.balances =
                        BalSet(b1, tx.token_symbol, BalGet(b1, tx.token_symbol))]

RECURSIVE ReplayLoop(_, _, _)
ReplayLoop(st, sequence, self_address) ==
    IF sequence = <<>> THEN st
    ELSE ReplayLoop(ReplayStep(st, Head(sequence), self_address),
                    Tail(sequence), self_address)

\* the method without the assertions that follow the loop
replay_transfers_unchecked(transfers, self_address) ==
    ReplayLoop(ReplayInit, sorted(transfers), self_address)

\* the whole method: [balances, raised, fees_paid, ...] for a transfer list
replay_transfers(transfers, self_address) ==
    LET final(st) ==
            IF st.raised THEN st
            ELSE IF ~AllNonNegative(st.balances) THEN [st EXCEPT !.raised = TRUE]
            ELSE st
    IN  final(ReplayLoop(ReplayInit, sorted(transfers), self_address))

\* a method that goes on from the balances the wallet holds
ResetBalances_keep(balances) == balances

\* self.balances = defaultdict(int): whatever the wallet held is dropped
ResetBalances(balances) == EmptyBalances

\* the method on a wallet that may have been replayed before: the loop starts
\* from what the assignment of line 44 leaves of the wallet's balances
replay_wallet(w) ==
    LET final(st) ==
            IF st.raised THEN st
            ELSE IF ~AllNonNegative(st.balances) THEN [st EXCEPT !.raised = TRUE]
            ELSE st
    IN  final(ReplayLoop([ReplayInit EXCEPT !.balances = ResetBalances(w.balances)],
                         sorted(w.transfers), w.address))

-----------------------------------------------------------------------------
(* ContractStorage: interfaces, contracts and what the chain reports *)

Contracts == {"0xC1", "0xC2", "0xC3"}
ZeroAddress == "0x0"

\* 4-byte selectors of the function names that occur
SelectorOf(fn) ==
    CASE fn = "approve" -> "0x095ea7b3"
      [] fn = "implementation" -> "0x5c60da1b"
      [] fn = "ownerOf" -> "0x6352211e"
      [] fn = "totalSupply" -> "0x18160ddd"
      [] fn = "symbol" -> "0x95d89b41"
      [] fn = "C1onAVAX" -> "0xc1a00000"
      [] fn = "C2onAVAX" -> "0xc2a00000"
      [] fn = "C3onAVAX" -> "0xc3a00000"
      [] fn = "C1onETHE" -> "0xc1e00000"
      [] fn = "C2onETHE" -> "0xc2e00000"
      [] fn = "C3onETHE" -> "0xc3e00000"

FnNames == {"approve", "implementation", "ownerOf", "totalSupply", "symbol",
            "C1onAVAX", "C2onAVAX", "C3onAVAX", "C1onETHE", "C2onETHE", "C3onETHE"}
Selectors == {SelectorOf(fn) : fn \in FnNames} \cup {"0x", "0xdeadbeef"}

\* contract.abi: None, or the list of the interface's functions
NoAbi == [known |-> FALSE, fns |-> {}]
Abi(fns) == [known |-> TRUE, fns |-> fns]
\* truth value of contract.abi
AbiTruthy(abi) == abi.known /\ abi.fns # {}

ERC20_ABI == Abi({"totalSupply", "approve", "symbol"})
ERC721_ABI == Abi({"ownerOf", "approve", "symbol"})

\* the function that tells the interface of one deployment from another's
OwnFn(a, net) ==
    CASE a = "0xC1" /\ net = "AVAX" -> "C1onAVAX"
      [] a = "0xC2" /\ net = "AVAX" -> "C2onAVAX"
      [] a = "0xC3" /\ net = "AVAX" -> "C3onAVAX"
      [] a = "0xC1" /\ net = "ETHE" -> "C1onETHE"
      [] a = "0xC2" /\ net = "ETHE" -> "C2onETHE"
      [] a = "0xC3" /\ net = "ETHE" -> "C3onETHE"
      [] OTHER -> "symbol"

\* web3.eth.contract(address, abi=abi) on the web3 of network net
Contract(a, abi, net) == [address |-> a, abi |-> abi, web3 |-> net]
NoContract == [address |-> "None", abi |-> NoAbi, web3 |-> "None"]

\* what explorer and chain report for one contract address
Fact(verified, accessor, ownerOf, totalSupply, impl_call, s1, s2) ==
    [verified |-> verified, accessor |-> accessor, ownerOf |-> ownerOf,
     totalSupply |-> totalSupply, impl_call |-> impl_call, slots |-> <<s1, s2>>]

\* an address that holds no contract: nothing verified, every call comes back empty
AccountFact ==
    Fact(FALSE, FALSE, "BadFunctionCallOutput", "BadFunctionCallOutput",
         "BadFunctionCallOutput", "0x0", "0x0")

FactAt(e, a) == IF a \in DOMAIN e THEN e[a] ELSE AccountFact

\* the interface the explorer reports for a verified contract
VerifiedAbi(e, a, net) ==
    Abi({OwnFn(a, net), "approve", "symbol"} \cup
        (IF FactAt(e, a).accessor THEN {"implementation"} ELSE {}))

\* the contracts an address may name as its implementation (never itself; the
\* last address names none, so that every chain of implementations ends)
Targets(a) ==
    CASE a = "0xC1" -> {"0xC2", "0xC3"}
      [] a = "0xC2" -> {"0xC3"}
      [] a = "0xC3" -> {}

\* a storage slot holds the raw 20 bytes of an address, or zero
SlotValues(a) == {ZeroAddress} \cup {Lower(t) : t \in Targets(a)}

ProbeOutcomes == {"ok", "BadFunctionCallOutput", "ContractLogicError"}

\* a verified contract that is no proxy
PlainFact == Fact(TRUE, FALSE, "ok", "ok", "BadFunctionCallOutput", ZeroAddress, ZeroAddress)

\* every kind of contract the resolver tells apart
AllFactsOf(a) ==
    \* verified, no implementation accessor in the interface
    {Fact(TRUE, FALSE, "ok", "ok", "BadFunctionCallOutput", s, ZeroAddress)
        : s \in SlotValues(a)}
    \cup
    \* unverified: the interface is guessed
    {Fact(FALSE, FALSE, "ok", "ok", "BadFunctionCallOutput", s, ZeroAddress)
        : s \in SlotValues(a)}
    \cup
    {Fact(FALSE, FALSE, "BadFunctionCallOutput", t, "BadFunctionCallOutput",
          ZeroAddress, ZeroAddress)
        : t \in {"BadFunctionCallOutput", "ContractLogicError"}}
    \cup
    \* verified, implementation accessor callable by anyone
    {Fact(TRUE, TRUE, "ok", "ok", r, s, ZeroAddress)
        : r \in Targets(a), s \in SlotValues(a)}
    \cup
    \* verified, implementation accessor in the interface but not in the code
    {Fact(TRUE, TRUE, "ok", "ok", "BadFunctionCallOutput", ZeroAddress, ZeroAddress)}
    \cup
    \* verified, implementation accessor reserved to the admin
    {Fact(TRUE, TRUE, "ok", "ok", "ContractLogicError", s1, s2)
        : s1 \in SlotValues(a), s2 \in SlotValues(a)}

\* 0xC1 is any kind of contract; 0xC2 and 0xC3, met mostly as implementations,
\* are the kinds that make a resolution through them differ
FactsOf(a) ==
    CASE a = "0xC1" -> AllFactsOf(a)
      [] a = "0xC2" ->
            {PlainFact,
             Fact(FALSE, FALSE, "ok", "ok", "BadFunctionCallOutput", ZeroAddress, ZeroAddress),
             Fact(FALSE, FALSE, "BadFunctionCallOutput", "ContractLogicError",
                  "BadFunctionCallOutput", ZeroAddress, ZeroAddress),
             Fact(TRUE, TRUE, "ok", "ok", "0xC3", ZeroAddress, ZeroAddress),
             Fact(TRUE, TRUE, "ok", "ok", "ContractLogicError", ZeroAddress, "0xc3")}
      [] a = "0xC3" ->
            {PlainFact,
             Fact(FALSE, FALSE, "BadFunctionCallOutput", "BadFunctionCallOutput",
                  "BadFunctionCallOutput", ZeroAddress, ZeroAddress)}

Envs == {e \in [Contracts -> UNION {FactsOf(a) : a \in Contracts}]
            : \A a \in Contracts : e[a] \in FactsOf(a)}

-----------------------------------------------------------------------------
(* ContractStorage: the class methods.  rs is the record of the class         *)
(* attributes [initialized, cache, network, files]; every method returns the  *)
(* attributes it leaves behind, its return value, the exception it raised     *)
(* ("none" if it returned) and the explorer lookups it made.                  *)

WEB3_BY_NETWORK == {"AVAX", "ETHE"}

Result(rs, ret, raised, lookups) ==
    [rs |-> rs, ret |-> ret, raised |-> raised, lookups |-> lookups]

\* the files of ABI_CACHE_PATH are named <address>_<network>_abi.json
FileName(a, net) == <<a, net>>

_switch_network(rs, net) ==
    IF net \notin WEB3_BY_NETWORK
    THEN Result(rs, NoContract, "AssertionError", <<>>)
    ELSE Result([rs EXCEPT !.network = net], NoContract, "none", <<>>)

\* pick[a] is the network of the file of address a that os.listdir yields last
init_cache(rs, pick) ==
    IF rs.initialized THEN rs
    ELSE LET named == {f[1] : f \in DOMAIN rs.files}
         IN  [rs EXCEPT
                !.cache = [a \in named |->
                              Contract(a, rs.files[FileName(a, pick[a])], pick[a])],
                !.initialized = TRUE]

\* the orders os.listdir may yield, as far as the resulting cache can tell
ListdirPicks(rs) ==
    LET named == {f[1] : f \in DOMAIN rs.files}
    IN  {p \in [named -> WEB3_BY_NETWORK] :
            \A a \in named : FileName(a, p[a]) \in DOMAIN rs.files}

guess_abi(e, rs, contract_address) ==
    LET erc721 == Contract(contract_address, ERC721_ABI, rs.network)
        erc20 == Contract(contract_address, ERC20_ABI, rs.network)
        ownerOf == FactAt(e, contract_address).ownerOf
        totalSupply == FactAt(e, contract_address).totalSupply
    IN  IF ownerOf = "ok" THEN Result(rs, erc721, "none", <<>>)
        ELSE IF ownerOf = "ContractLogicError" THEN Result(rs, erc721, "none", <<>>)
        ELSE IF totalSupply = "ok" THEN Result(rs, erc20, "none", <<>>)
        ELSE IF totalSupply = "BadFunctionCallOutput"
             THEN Result(rs, Contract(erc20.address, NoAbi, rs.network), "none", <<>>)
        ELSE Result(rs, NoContract, totalSupply, <<>>)

_get_contract(e, rs, contract_address) ==
    LET lookup == <<contract_address, rs.network>>
    IN  IF FactAt(e, contract_address).verified
        THEN Result(rs, Contract(contract_address,
                                 VerifiedAbi(e, contract_address, rs.network),
                                 rs.network),
                    "none", <<lookup>>)
        ELSE [guess_abi(e, rs, contract_address) EXCEPT !.lookups = <<lookup>>]

\* Web3.toChecksumAddress of the address read from a storage slot
ToChecksumAddress(a) ==
    CASE a = "0xw" -> "0xW"
      [] a = "0xc1" -> "0xC1"
      [] a = "0xc2" -> "0xC2"
      [] a = "0xc3" -> "0xC3"
      [] OTHER -> a

\* the slots inspected, in order: ERC-1967, then zeppelinos
PotentialImplSlots == <<1, 2>>

\* a loop that does not stop at the first non-zero slot: the last one wins
FirstNonZeroSlot_last(e, a, i) ==
    IF FactAt(e, a).slots[PotentialImplSlots[2]] # ZeroAddress
    THEN FactAt(e, a).slots[PotentialImplSlots[2]]
    ELSE FactAt(e, a).slots[PotentialImplSlots[1]]

RECURSIVE FirstNonZeroSlot(_, _, _)
FirstNonZeroSlot(e, a, i) ==
    IF i > Len(PotentialImplSlots) THEN ZeroAddress
    ELSE IF FactAt(e, a).slots[PotentialImplSlots[i]] # ZeroAddress
         THEN FactAt(e, a).slots[PotentialImplSlots[i]]
         ELSE FirstNonZeroSlot(e, a, i + 1)

\* the try covers the accessor call and the _get_contract of its result: a
\* ContractLogicError of either leads to the slots, any other error propagates
_get_impl_contract_for_proxy(e, rs, contract) ==
    LET called == FactAt(e, contract.address).impl_call
        found == FirstNonZeroSlot(e, contract.address, 1)
        fromSlots(before) ==
            IF found = ZeroAddress THEN Result(rs, contract, "none", before)
            ELSE [_get_contract(e, rs, ToChecksumAddress(found))
                    EXCEPT !.lookups = before \o @]
        fromAccessor(r) ==
            IF r.raised = "ContractLogicError" THEN fromSlots(r.lookups) ELSE r
    IN  IF called \in Contracts THEN fromAccessor(_get_contract(e, rs, called))
        ELSE IF called # "ContractLogicError"
             THEN Result(rs, NoContract, called, <<>>)
        ELSE fromSlots(<<>>)

\* a cache that never holds anything
CacheGet_miss(rs, contract_address) == NoContract

\* cls.cache.get(contract_address)
CacheGet(rs, contract_address) ==
    IF contract_address \in DOMAIN rs.cache THEN rs.cache[contract_address]
    ELSE NoContract

\* get_contract after a cache miss: the api call, the proxy, the file, the cache
resolve_and_store(e, rs2, contract_address) ==
    LET store(contract, lookups) ==
            Result([rs2 EXCEPT
                      !.files = [f \in (DOMAIN rs2.files)
                                         \cup {FileName(contract_address, rs2.network)}
                                    |-> IF f = FileName(contract_address, rs2.network)
                                        THEN (IF AbiTruthy(contract.abi)
                                              THEN contract.abi ELSE NoAbi)
                                        ELSE rs2.files[f]],
                      !.cache = [a \in (DOMAIN rs2.cache) \cup {contract_address}
                                    |-> IF a = contract_address THEN contract
                                        ELSE rs2.cache[a]]],
                   contract, "none", lookups)
        replaced(first, impl) ==
            IF impl.raised # "none"
            THEN [impl EXCEPT !.lookups = first.lookups \o impl.lookups]
            ELSE store(impl.ret, first.lookups \o impl.lookups)
        fetched(first) ==
            IF first.raised # "none" THEN first
            ELSE IF AbiTruthy(first.ret.abi) /\ "implementation" \in first.ret.abi.fns
                 THEN replaced(first, _get_impl_contract_for_proxy(e, rs2, first.ret))
            ELSE store(first.ret, first.lookups)
    IN  fetched(_get_contract(e, rs2, contract_address))

get_contract(e, rs0, pick, contract_address, net) ==
    LET switched(sw) ==
            IF sw.raised # "none" THEN sw
            ELSE IF CacheGet(sw.rs, contract_address) # NoContract
                 THEN Result(sw.rs, CacheGet(sw.rs, contract_address), "none", <<>>)
            ELSE resolve_and_store(e, sw.rs, contract_address)
    IN  switched(_switch_network(init_cache(rs0, pick), net))

\* contract.get_function_by_selector(fn_selector).fn_name, or "ValueError"
FunctionBySelector(contract, fn_selector) ==
    LET found == {fn \in contract.abi.fns : SelectorOf(fn) = fn_selector}
    IN  IF Cardinality(found) = 1 THEN CHOOSE fn \in found : TRUE ELSE "ValueError"

\* get_fn_name without its except clause: the ValueError reaches the caller
get_fn_name_unguarded(contract, fn_selector) ==
    IF contract.abi.known
    THEN FunctionBySelector(contract, fn_selector)
    ELSE fn_selector

get_fn_name(contract, fn_selector) ==
    IF contract.abi.known
    THEN IF FunctionBySelector(contract, fn_selector) # "ValueError"
         THEN FunctionBySelector(contract, fn_selector)
         ELSE fn_selector
    ELSE fn_selector

-----------------------------------------------------------------------------
(* What the providers report for the wallet address *)

Hashes == <<"0xh1", "0xh2">>

\* sender and recipient of a top-level transaction, as web3 reports them
Parties == {<<"0xW", "0xC1">>, <<"0xC1", "0xW">>, <<"0xW", "0xW">>, <<"0xC1", "0xC2">>}

\* the transfer records a transaction leaves in the explorer's listings
EventLists ==
    {<<>>, <<"erc20_in">>, <<"erc20_out">>, <<"erc20_out", "erc20_in">>,
     <<"erc721_in">>, <<"internal_in">>}

\* a transaction leaves transfer records only when it calls a contract
Shapes ==
    {s \in [parties : Parties, value : {0, 5}, events : EventLists]
        : s.events # <<>> => s.parties[2] \in Contracts}

\* the selector transaction Hashes[i] calls: approve, or the contract's own function
InputOf(i) == IF i = 1 THEN "0x095ea7b3" ELSE "0xc1a00000"

\* gas price of transaction Hashes[i]; every transaction uses one unit of gas
GasPriceOf(i) == i

\* one record of an explorer listing (tokentx, tokennfttx, txlistinternal)
RawEvent(kind, i, ts) ==
    [from |-> IF kind = "erc20_out" THEN "0xw" ELSE "0xc1",
     to |-> IF kind = "erc20_out" THEN "0xc1" ELSE "0xw",
     value |-> IF kind = "internal_in" THEN 5 ELSE 500,
     gasUsed |-> 1, gasPrice |-> GasPriceOf(i),
     tokenSymbol |-> IF kind = "erc721_in" THEN "NFT" ELSE "TKN",
     tokenDecimal |-> IF kind = "erc721_in" THEN "0" ELSE "2",
     timeStamp |-> ts, hash |-> Hashes[i]]

RECURSIVE EventsOfKind(_, _, _, _)
EventsOfKind(events, kinds, i, ts) ==
    IF events = <<>> THEN <<>>
    ELSE (IF Head(events) \in kinds THEN <<RawEvent(Head(events), i, ts)>> ELSE <<>>)
         \o EventsOfKind(Tail(events), kinds, i, ts)

\* the snapshot of the providers for a history of one or two transactions;
\* shape[i] and ts[i] describe transaction Hashes[i]
Snapshot(shape, ts, has_more, capped) ==
    LET n == Len(shape)
        listing(kinds) ==
            EventsOfKind(shape[1].events, kinds, 1, ts[1])
            \o (IF n > 1 THEN EventsOfKind(shape[2].events, kinds, 2, ts[2]) ELSE <<>>)
        item(i) == [tx_hash |-> Hashes[i], gas_spent |-> 1, timestamp |-> ts[i]]
    IN  [erc20 |-> listing({"erc20_in", "erc20_out"}),
         erc721 |-> listing({"erc721_in"}),
         internal |-> listing({"internal_in"}),
         \* covalent lists the most recent transaction first
         items |-> IF n > 1 THEN <<item(2), item(1)>> ELSE <<item(1)>>,
         has_more |-> has_more,
         \* the explorer's reply says that its result list stops at the page limit;
         \* the program reads the "result" field of the reply only
         capped |-> capped,
         \* web3.eth.get_transaction(hash)
         details |-> [h \in {Hashes[i] : i \in 1..n} |->
                        LET i == CHOOSE j \in 1..n : Hashes[j] = h
                        IN  [from |-> shape[i].parties[1], to |-> shape[i].parties[2],
                             input |-> InputOf(i), value |-> shape[i].value,
                             gasPrice |-> GasPriceOf(i)]]]

\* who says that there is more than the page fetched: nobody, covalent
\* (pagination.has_more), or the explorer
MoreSignals == {<<FALSE, FALSE>>, <<TRUE, FALSE>>, <<FALSE, TRUE>>}

RecordsIn(c) == Len(c.erc20) + Len(c.erc721) + Len(c.internal) + Len(c.items)

Snapshots ==
    {c \in {Snapshot(<<s1>>, <<1>>, m[1], m[2]) : s1 \in Shapes, m \in MoreSignals}
           \cup {Snapshot(<<s1, s2>>, <<1, t2>>, m[1], m[2])
                    : s1 \in Shapes, s2 \in Shapes, t2 \in {1, 2}, m \in MoreSignals}
        : RecordsIn(c) <= MaxRecords}

NoChain ==
    [erc20 |-> <<>>, erc721 |-> <<>>, internal |-> <<>>, items |-> <<>>,
     has_more |-> FALSE, capped |-> FALSE, details |-> [h \in {} |-> 0]]

-----------------------------------------------------------------------------
(* TransactionOrganizer.extract *)

RECURSIVE Reverse(_)
Reverse(seq) == IF seq = <<>> THEN <<>> ELSE Reverse(Tail(seq)) \o <<Head(seq)>>

get_erc20_transfers(c, net) ==
    LET make(t) == TokenTransfer(t.from, t.to, ToDecimal(t.value), t.gasUsed, t.gasPrice,
                                 net, t.tokenSymbol, t.tokenDecimal, "ERC20",
                                 t.timeStamp, t.hash)
    IN  [i \in 1..Len(c.erc20) |-> make(c.erc20[i])]

get_erc721_transfers(c, net) ==
    LET make(t) == TokenTransfer(t.from, t.to, ToDecimal(1), t.gasUsed, t.gasPrice,
                                 net, t.tokenSymbol, t.tokenDecimal, "ERC721",
                                 t.timeStamp, t.hash)
    IN  [i \in 1..Len(c.erc721) |-> make(c.erc721[i])]

get_internal_transactions(c, net) ==
    LET make(t) == TokenTransfer(t.from, t.to, FromWei(t.value), 0, 0,
                                 net, net, "None", "native", t.timeStamp, t.hash)
    IN  [i \in 1..Len(c.internal) |-> make(c.internal[i])]

\* [::-1] of the parsed items; raises when the listing is paginated
get_transactions(c) ==
    IF c.has_more THEN [raised |-> "AssertionError", txns |-> <<>>]
    ELSE [raised |-> "none", txns |-> Reverse(c.items)]

HashesOf(transfers) == {transfers[i].tx_hash : i \in 1..Len(transfers)}

\* the body of "for txn in txns"; st is [transfers, rs, raised, lookups]
ExtractTxn(st, txn, c, e, pick, self_address, net, done_hashes) ==
    LET txn_details == c.details[txn.tx_hash]
        from_address == txn_details.from
        to_address == txn_details.to
        fn_selector == txn_details.input
        native_token_transferred == FromWei(txn_details.value)
        moved == TokenTransfer(from_address, to_address, native_token_transferred,
                               txn.gas_spent, txn_details.gasPrice, net, net,
                               "None", "native", txn.timestamp, txn.tx_hash)
        gas_only == TokenTransfer(from_address, to_address, 0,
                                  txn.gas_spent, txn_details.gasPrice, net, net,
                                  "None", "None", txn.timestamp, txn.tx_hash)
        st1 == [st EXCEPT !.transfers = Append(st.transfers, gas_only)]
        called(fn, got, st2) ==
            IF got.raised # "none" THEN [st2 EXCEPT !.raised = got.raised]
            ELSE IF from_address = self_address /\ fn = "approve"
                    /\ "symbol" \notin got.ret.abi.fns
                 THEN [st2 EXCEPT !.raised = "ABIFunctionNotFound"]
            ELSE st2
        interacted(got) ==
            called(get_fn_name(got.ret, fn_selector), got,
                   [st EXCEPT !.transfers = Append(st.transfers, gas_only),
                              !.rs = got.rs, !.lookups = st.lookups \o got.lookups])
    IN  IF st.raised # "none" THEN st
        ELSE IF native_token_transferred # 0
             THEN IF self_address # to_address /\ self_address # from_address
                  THEN [st EXCEPT !.raised = "AssertionError"]
                  ELSE [st EXCEPT !.transfers = Append(st.transfers, moved)]
        ELSE IF txn.tx_hash \in done_hashes THEN st
        ELSE IF from_address = self_address /\ self_address = to_address THEN st1
        ELSE IF to_address = self_address /\ from_address # self_address
             THEN [st1 EXCEPT !.raised = "AssertionError"]
        ELSE interacted(get_contract(e, st.rs, pick, to_address, net))

RECURSIVE ExtractLoop(_, _, _, _, _, _, _, _)
ExtractLoop(st, txns, c, e, pick, self_address, net, done_hashes) ==
    IF txns = <<>> THEN st
    ELSE ExtractLoop(ExtractTxn(st, Head(txns), c, e, pick, self_address, net, done_hashes),
                     Tail(txns), c, e, pick, self_address, net, done_hashes)

\* [wallet, rs, raised, lookups]: the wallet is returned only when nothing is raised
extract(c, e, rs, pick, self_address, net) ==
    LET erc20_transfers == get_erc20_transfers(c, net)
        erc721_transfers == get_erc721_transfers(c, net)
        internal_transactions == get_internal_transactions(c, net)
        done_hashes == HashesOf(erc20_transfers) \cup HashesOf(erc721_transfers)
        internal_ok ==
            \A i \in 1..Len(internal_transactions) :
                \/ Lower(self_address) = Lower(internal_transactions[i].to_addr)
                \/ Lower(self_address) = Lower(internal_transactions[i].from_addr)
        listed == get_transactions(c)
        st0 == [transfers |-> erc20_transfers \o erc721_transfers \o internal_transactions,
                rs |-> rs, raised |-> "none", lookups |-> <<>>]
        fail(x) == [wallet |-> NoWallet, rs |-> rs, raised |-> x, lookups |-> <<>>]
        looped(st) ==
            IF st.raised # "none"
            THEN [wallet |-> NoWallet, rs |-> st.rs, raised |-> st.raised,
                  lookups |-> st.lookups]
            ELSE [wallet |-> [address |-> self_address, network |-> net,
                              transfers |-> st.transfers, balances |-> EmptyBalances],
                  rs |-> st.rs, raised |-> "none", lookups |-> st.lookups]
    IN  IF net \notin WEB3_BY_NETWORK THEN fail("AssertionError")
        ELSE IF ~internal_ok THEN fail("AssertionError")
        ELSE IF listed.raised # "none" THEN fail(listed.raised)
        ELSE looped(ExtractLoop(st0, listed.txns, c, e, pick, self_address, net,
                                done_hashes))

-----------------------------------------------------------------------------
(* The program: main.py extracts a wallet and replays it *)

\* nothing resolved: neither in the runs that ended nor in the running one
NoneResolved == [before |-> [k \in {} |-> NoContract], now |-> [k \in {} |-> NoContract]]

\* f with key k bound to v unless k is bound already
Recorded(f, k, v) ==
    IF k \in DOMAIN f THEN f ELSE [x \in (DOMAIN f) \cup {k} |-> IF x = k THEN v ELSE f[x]]

\* f, and the bindings of g for the keys f does not bind
Merged(f, g) ==
    [x \in (DOMAIN f) \cup (DOMAIN g) |-> IF x \in DOMAIN f THEN f[x] ELSE g[x]]

NoCall ==
    [address |-> "None", network |-> "None", ret |-> NoContract, raised |-> "none",
     lookups |-> <<>>]

FreshStorage == [initialized |-> FALSE, cache |-> [a \in {} |-> NoContract],
                 network |-> "None", files |-> [f \in {} |-> NoAbi]]

Storage == [initialized |-> initialized, cache |-> cache, network |-> network,
            files |-> files]

SetStorage(rs) ==
    /\ initialized' = rs.initialized
    /\ cache' = rs.cache
    /\ network' = rs.network
    /\ files' = rs.files

\* the contracts the wallet's transactions meet: plain ones, or a proxy at 0xC1
LedgerEnvs ==
    {[a \in Contracts |-> PlainFact],
     [a \in Contracts |-> IF a = "0xC1"
                          THEN Fact(TRUE, TRUE, "ok", "ok", "0xC2", ZeroAddress, ZeroAddress)
                          ELSE PlainFact]}

Idle == [op |-> "none", raised |-> "none"]

InitLedger ==
    /\ address \in {"0xW", "0xw"}
    /\ chain = NoChain
    /\ wallet = NoWallet
    /\ outcome = Idle
    /\ fees_paid = EmptyBalances
    /\ env \in LedgerEnvs
    /\ initialized = FALSE
    /\ cache = FreshStorage.cache
    /\ network = "None"
    /\ files = FreshStorage.files
    /\ last = NoCall
    /\ prev = NoCall
    /\ ncalls = 0
    /\ resolved = NoneResolved
    /\ flows = <<>>
    /\ pure = <<>>

\* wallet = t.extract(network)
Extract ==
    /\ outcome.op = "none"
    /\ \E c \in Snapshots, net \in Networks, pick \in ListdirPicks(Storage) :
          LET returned(r) ==
                  /\ chain' = c
                  /\ wallet' = r.wallet
                  /\ outcome' = [op |-> "extract", raised |-> r.raised]
                  /\ SetStorage(r.rs)
          IN  returned(extract(c, env, Storage, pick, address, net))
    /\ UNCHANGED <<address, fees_paid, env, last, prev, ncalls, resolved, flows, pure>>

\* wallet.replay_transfers()
ReplayTransfers ==
    /\ outcome.op = "extract"
    /\ outcome.raised = "none"
    /\ LET returned(r) ==
               /\ wallet' = [wallet EXCEPT !.balances = r.balances]
               /\ outcome' = [op |-> "replay",
                              raised |-> IF r.raised THEN "AssertionError" ELSE "none"]
               /\ fees_paid' = r.fees_paid
       IN  returned(replay_transfers(wallet.transfers, wallet.address))
    /\ UNCHANGED <<address, chain, resolverVars, flows, pure>>

Next == Extract \/ ReplayTransfers

Spec == InitLedger /\ [][Next]_vars

-----------------------------------------------------------------------------
(* Claims about Wallet.replay_transfers and extract, checked under Spec *)

Permuted(seq, p) == [i \in 1..Len(seq) |-> seq[p[i]]]

\* what a caller of replay_transfers observes: the balances, or the abort
ReplayOutcome(transfers, self_address) ==
    LET r == replay_transfers(transfers, self_address)
    IN  IF r.raised THEN [aborted |-> TRUE, balances |-> EmptyBalances]
        ELSE [aborted |-> FALSE, balances |-> r.balances]

Replayed == outcome.op = "replay"

\* C1: replaying the wallet's transfers gives the same outcome (the same final
\* balances, or the same negative-balance abort) for every ordering of the list.
C1_OrderInvariant ==
    Replayed =>
        \A p \in Permutations(1..Len(wallet.transfers)) :
            ReplayOutcome(Permuted(wallet.transfers, p), wallet.address)
                = ReplayOutcome(wallet.transfers, wallet.address)

\* the balances after the first i records of a sequence, fees included, with no
\* check made on the way
RECURSIVE C2_BalancesAfter(_, _, _)
C2_BalancesAfter(seq, i, self_address) ==
    IF i = 0 THEN ReplayInit
    ELSE LET before == C2_BalancesAfter(seq, i - 1, self_address)
             tx == seq[i]
             isNew == tx.tx_hash \notin before.seen_tx_hashes
             isSender == Lower(tx.from_addr) = Lower(self_address)
             isRecipient == Lower(tx.to_addr) = Lower(self_address)
             b1 == IF isNew /\ isSender
                   THEN BalSet(before.balances, tx.network,
                               BalGet(before.balances, tx.network) - tx.fees)
                   ELSE before.balances
             b2 == IF tx.value # 0 /\ isSender
                   THEN BalSet(b1, tx.token_symbol, BalGet(b1, tx.token_symbol) - tx.value)
                   ELSE IF tx.value # 0 /\ isRecipient
                   THEN BalSet(b1, tx.token_symbol, BalGet(b1, tx.token_symbol) + tx.value)
                   ELSE b1
         IN  [before EXCEPT !.balances = b2,
                            !.seen_tx_hashes = before.seen_tx_hashes \cup {tx.tx_hash}]

\* some balance is below zero where the hash under processing changes, or at the end
C2_NegativeAtHashChange(transfers, self_address) ==
    LET seq == sorted(transfers)
    IN  \E i \in 1..Len(seq) :
            /\ i = Len(seq) \/ seq[i + 1].tx_hash # seq[i].tx_hash
            /\ ~AllNonNegative(C2_BalancesAfter(seq, i, self_address).balances)

\* C2: replay aborts with a negative-balance error if and only if, in (timestamp
\* ascending, fee descending) order, some balance is below zero at a point where
\* the hash under processing changes or at the end of the sequence.
C2_AbortIffNegativeAtHashChange ==
    Replayed =>
        ((outcome.raised = "AssertionError")
            <=> C2_NegativeAtHashChange(wallet.transfers, wallet.address))

\* the fee of the top-level transaction with hash h
TxFee(h) ==
    LET i == CHOOSE j \in 1..Len(chain.items) : chain.items[j].tx_hash = h
    IN  FromWei(chain.items[i].gas_spent * chain.details[h].gasPrice)

\* C3: for every transaction hash of the wallet's transfers, a replay that returns
\* has debited the transaction's fee exactly once if the wallet is the sender of
\* the transaction and not at all if it is not.
C3_FeeOncePerHashOfSender ==
    (Replayed /\ outcome.raised = "none") =>
        \A h \in HashesOf(wallet.transfers) :
            BalGet(fees_paid, h)
                = IF Lower(chain.details[h].from) = Lower(address) THEN TxFee(h) ELSE 0

\* the record of a transaction that the wallet sent to itself
C12_SelfRecord(t, self_address) ==
    /\ Lower(t.from_addr) = Lower(self_address)
    /\ Lower(t.to_addr) = Lower(self_address)

\* the transfers, with the records the wallet sent to itself moving nothing
C12_SelfMovesNothing(transfers, self_address) ==
    [i \in 1..Len(transfers) |->
        IF C12_SelfRecord(transfers[i], self_address)
        THEN [transfers[i] EXCEPT !.value = 0]
        ELSE transfers[i]]

\* C12: a transaction from the wallet to the wallet changes no balance in extract
\* followed by replay, apart from its fee: the replay ends as it does when the
\* records of such transactions carry their fee and move nothing.
C12_SelfCallOnlyCostsFee ==
    Replayed =>
        ReplayOutcome(wallet.transfers, wallet.address)
            = ReplayOutcome(C12_SelfMovesNothing(wallet.transfers, wallet.address),
                            wallet.address)

\* extract returned a wallet
Extracted == wallet # NoWallet

\* the wallet is the sender of top-level transaction h; its recipient
IsSender(h) == Lower(chain.details[h].from) = Lower(address)
IsRecipient(h) == Lower(chain.details[h].to) = Lower(address)

\* the top-level transactions that carry native value
ValueHashes == {h \in DOMAIN chain.details : chain.details[h].value # 0}

\* the native transfer records that extract made of top-level transaction h
NativeRecords(h) ==
    {i \in 1..Len(wallet.transfers) :
        /\ wallet.transfers[i].tx_hash = h
        /\ wallet.transfers[i].token_type = "native"
        /\ wallet.transfers[i].value = FromWei(chain.details[h].value)
        /\ wallet.transfers[i].from_addr = chain.details[h].from
        /\ wallet.transfers[i].to_addr = chain.details[h].to}

\* C13: extract returns a wallet only if every top-level transaction with native
\* value has the wallet as exactly one of sender and recipient (with both or
\* neither the assertion fails), and it records a native transfer for each.
C13_NativeNeedsExactlyOneParty ==
    Extracted =>
        \A h \in ValueHashes :
            /\ IsSender(h) # IsRecipient(h)
            /\ NativeRecords(h) # {}

\* the hashes that the fetched token-transfer records explain
TokenHashes ==
    {chain.erc20[i].hash : i \in 1..Len(chain.erc20)}
        \cup {chain.erc721[i].hash : i \in 1..Len(chain.erc721)}

\* the top-level transactions without value that no token record explains and
\* that someone else sent to the wallet
SentToWallet ==
    {h \in DOMAIN chain.details :
        /\ chain.details[h].value = 0
        /\ h \notin TokenHashes
        /\ IsRecipient(h) /\ ~IsSender(h)}

\* C14: extract returns no wallet when a top-level transaction without value,
\* that no fetched token record explains, has the wallet as recipient and someone
\* else as sender; it aborts instead.
C14_UnexpectedSenderAborts ==
    SentToWallet # {} => ~Extracted

\* the positions of the records of hash h in a transfer list
RecordsOf(transfers, h) == {i \in 1..Len(transfers) : transfers[i].tx_hash = h}

\* hash h has one fee-bearing record, sent by the wallet, and apart from it only
\* zero-fee records of the same timestamp that credit the wallet, at least one
FeeThenCredits(transfers, self_address, h) ==
    LET recs == RecordsOf(transfers, h)
        tops == {i \in recs : transfers[i].fees > 0}
    IN  /\ Cardinality(tops) = 1
        /\ recs # tops
        /\ \A i \in tops : Lower(transfers[i].from_addr) = Lower(self_address)
        /\ \A i \in recs \ tops, j \in tops :
              /\ transfers[i].fees = 0
              /\ transfers[i].value > 0
              /\ transfers[i].timestamp = transfers[j].timestamp
              /\ Lower(transfers[i].to_addr) = Lower(self_address)
              /\ Lower(transfers[i].from_addr) # Lower(self_address)

\* in the order replay processes the list, the fee-bearing record of h comes
\* before its other records
FeeRecordFirst(transfers, h) ==
    LET seq == sorted(transfers)
    IN  \A i \in RecordsOf(seq, h), j \in RecordsOf(seq, h) :
            (seq[i].fees > 0 /\ seq[j].fees = 0) => i < j

\* the fee debited for h by a replay of the list: the fee of its fee-bearing
\* record, once, if the replay returns; that or nothing if it aborts
FeeDebitedOnce(transfers, self_address, h) ==
    LET r == replay_transfers(transfers, self_address)
        fee == transfers[CHOOSE i \in RecordsOf(transfers, h) : transfers[i].fees > 0].fees
    IN  IF r.raised THEN BalGet(r.fees_paid, h) \in {0, fee}
        ELSE BalGet(r.fees_paid, h) = fee

OtherCase(a) == IF a = Lower(a) THEN ToChecksumAddress(a) ELSE Lower(a)

\* what extract yields for the chain from a fresh resolver: the exception, or
\* the transfers of the wallet
ExtractOutcome(self_address, net) ==
    LET finished(r) == [raised |-> r.raised, transfers |-> r.wallet.transfers]
    IN  finished(extract(chain, env, FreshStorage, <<>>, self_address, net))

\* C16: extract classifies the transactions, and fails, in the same way when the
\* wallet address is given in the other letter case.
C16_CaseInsensitiveAddress ==
    outcome.op = "extract" =>
        \A net \in Networks :
            (ExtractOutcome(address, net)
                = [raised |-> outcome.raised, transfers |-> wallet.transfers])
            => ExtractOutcome(OtherCase(address), net) = ExtractOutcome(address, net)

\* C17: whenever replay_transfers returns normally, every balance of the
\* wallet's balances mapping is at least zero.
C17_ReturnedBalancesNonNegative ==
    (Replayed /\ outcome.raised = "none") =>
        \A token \in DOMAIN wallet.balances : wallet.balances[token] >= 0

\* a replay returned after it debited a fee and credited the wallet
C17_Witness ==
    /\ Replayed
    /\ outcome.raised = "none"
    /\ \E h \in DOMAIN fees_paid : fees_paid[h] > 0
    /\ \E token \in DOMAIN wallet.balances : wallet.balances[token] > 0

\* C18: extract returns no wallet when a provider says that more data exists
\* beyond the page fetched, be it covalent for the top-level transactions or
\* the explorer for its transfer listings.
C18_TruncatedListingFails ==
    (chain.has_more \/ chain.capped) => ~Extracted

\* the state of the replay loop before the i-th transfer of the sorted list
ReplayBefore(i) ==
    ReplayLoop(ReplayInit, SubSeq(sorted(wallet.transfers), 1, i - 1), wallet.address)

\* every symbol that names a balance
BalanceSymbols ==
    Networks \cup {wallet.transfers[i].token_symbol : i \in 1..Len(wallet.transfers)}

TouchesWallet(tx) ==
    \/ Lower(tx.from_addr) = Lower(wallet.address)
    \/ Lower(tx.to_addr) = Lower(wallet.address)

\* the fee debit a transfer brings to balance k: its fee, from the network's
\* balance, when its hash is met for the first time and the wallet sent it
FeeDebit(st, tx, k) ==
    IF /\ tx.tx_hash \notin st.seen_tx_hashes
       /\ Lower(tx.from_addr) = Lower(wallet.address)
       /\ k = tx.network
    THEN tx.fees ELSE 0

\* what the value of a transfer adds to balance k
ValueEffect(tx, k) ==
    IF tx.value = 0 \/ ~TouchesWallet(tx) \/ k # tx.token_symbol THEN 0
    ELSE IF Lower(tx.from_addr) = Lower(wallet.address) THEN 0 - tx.value
    ELSE tx.value

FrameOfStep(st, tx) ==
    LET stepped(after) ==
            ~after.raised =>
                \A k \in BalanceSymbols :
                    BalGet(after.balances, k) =
                        BalGet(st.balances, k) - FeeDebit(st, tx, k) + ValueEffect(tx, k)
    IN  stepped(ReplayStep(st, tx, wallet.address))

\* C21: in a replay, a transfer of value zero, or one the wallet neither sent
\* nor received, changes no balance but by the fee debit of its hash; a
\* transfer with a value changes, besides, only the balance of its own token
\* symbol: less the value when the wallet sent it, plus the value when the
\* wallet received it.
C21_ReplayStepFrame ==
    Replayed =>
        \A i \in 1..Len(wallet.transfers) :
            ~ReplayBefore(i).raised =>
                FrameOfStep(ReplayBefore(i), sorted(wallet.transfers)[i])

\* a replay that returned went through a transfer of value zero that the
\* wallet neither sent nor received, and through a transfer with a value while
\* another symbol had a balance
C21_Witness ==
    /\ Replayed
    /\ outcome.raised = "none"
    /\ \E i \in 1..Len(wallet.transfers) :
          /\ wallet.transfers[i].value = 0
          /\ ~TouchesWallet(wallet.transfers[i])
    /\ \E i \in 1..Len(wallet.transfers) :
          /\ wallet.transfers[i].value > 0
          /\ \E k \in DOMAIN wallet.balances :
                k # wallet.transfers[i].token_symbol /\ wallet.balances[k] > 0

-----------------------------------------------------------------------------
(* The resolver on its own: any caller, any contracts *)

InitResolver ==
    /\ env \in Envs
    /\ initialized = FALSE
    /\ cache = FreshStorage.cache
    /\ network = "None"
    /\ files = FreshStorage.files
    /\ last = NoCall
    /\ prev = NoCall
    /\ ncalls = 0
    /\ resolved = NoneResolved
    /\ address = "0xW"
    /\ chain = NoChain
    /\ wallet = NoWallet
    /\ outcome = Idle
    /\ fees_paid = EmptyBalances
    /\ flows = <<>>
    /\ pure = <<>>

\* ContractStorage.get_contract(contract_address, network)
GetContract ==
    /\ ncalls < MaxCalls
    /\ \E a \in Contracts, net \in Networks, pick \in ListdirPicks(Storage) :
          LET returned(r) ==
                  /\ SetStorage(r.rs)
                  /\ last' = [address |-> a, network |-> net, ret |-> r.ret,
                              raised |-> r.raised, lookups |-> r.lookups]
                  /\ resolved' = IF r.raised = "none" /\ r.lookups # <<>>
                                 THEN [resolved EXCEPT
                                         !.now = Recorded(@, <<a, net>>, r.ret)]
                                 ELSE resolved
          IN  returned(get_contract(env, Storage, pick, a, net))
    /\ prev' = last
    /\ ncalls' = ncalls + 1
    /\ UNCHANGED <<ledgerVars, env, flows, pure>>

\* the process ends and a new one starts: the class attributes are gone, the
\* files of ABI_CACHE_PATH stay
Restart ==
    /\ initialized
    /\ ncalls < MaxCalls
    /\ initialized' = FALSE
    /\ cache' = FreshStorage.cache
    /\ network' = "None"
    /\ last' = NoCall
    /\ prev' = NoCall
    /\ resolved' = [before |-> Merged(resolved.before, resolved.now),
                    now |-> NoneResolved.now]
    /\ UNCHANGED <<ledgerVars, env, files, ncalls, flows, pure>>

NextResolver == GetContract \/ Restart

SpecResolver == InitResolver /\ [][NextResolver]_vars

-----------------------------------------------------------------------------
(* Claims about ContractStorage.get_contract, checked under SpecResolver *)

Returned(call) == call.address # "None" /\ call.raised = "none"

\* the call found nothing in the cache and asked the explorer
Missed(call) == call.lookups # <<>>

LookupsOf(call, key) == Cardinality({i \in 1..Len(call.lookups) : call.lookups[i] = key})

SameKeyTwice ==
    /\ Returned(prev) /\ Returned(last)
    /\ prev.address = last.address /\ prev.network = last.network

\* C4: resolving the same (address, network) twice in sequence returns equal
\* descriptors; the second call makes no lookup, and the two calls together look
\* the key's interface up at most once.
C4_SecondCallIsCacheHit ==
    SameKeyTwice =>
        /\ last.ret = prev.ret
        /\ last.lookups = <<>>
        /\ LookupsOf(prev, <<last.address, last.network>>)
             + LookupsOf(last, <<last.address, last.network>>) <= 1

\* the first of two calls for one key missed the cache, and both returned
C4_Witness == SameKeyTwice /\ Missed(prev)

\* C5: get_contract(a, n) returns a descriptor resolved, or loaded from the
\* persisted cache, for network n; never the one cached for a on another network.
C5_DescriptorOfRequestedNetwork ==
    Returned(last) => last.ret.web3 = last.network

\* the interface of address a on its own: what the explorer reports, or the guess
\* for an unverified contract (non-fungible, fungible, none)
OwnAbi(e, a, net) ==
    LET f == FactAt(e, a)
    IN  IF f.verified THEN VerifiedAbi(e, a, net)
        ELSE IF f.ownerOf \in {"ok", "ContractLogicError"} THEN ERC721_ABI
        ELSE IF f.totalSupply \in {"ok", "ContractLogicError"} THEN ERC20_ABI
        ELSE NoAbi

OwnDescriptor(e, a, net) == Contract(a, OwnAbi(e, a, net), net)

\* the address held by the first non-zero standardized slot of a, or ZeroAddress
SlotAddress(e, a) ==
    LET f == FactAt(e, a)
    IN  IF f.slots[1] # ZeroAddress THEN ToChecksumAddress(f.slots[1])
        ELSE IF f.slots[2] # ZeroAddress THEN ToChecksumAddress(f.slots[2])
        ELSE ZeroAddress

\* the last call resolved a key that was not cached, and returned
FreshlyResolved == Returned(last) /\ Missed(last)

AccessorDefersToSlot(e, a) ==
    LET f == FactAt(e, a)
    IN  /\ f.verified /\ f.accessor
        /\ f.impl_call \in {"ContractLogicError", SlotAddress(e, a)}

ImplementationOf(e, a) ==
    LET f == FactAt(e, a)
    IN  IF ~(f.verified /\ f.accessor) THEN ZeroAddress
        ELSE IF f.impl_call \in Contracts THEN f.impl_call
        ELSE IF f.impl_call = "ContractLogicError" THEN SlotAddress(e, a)
        ELSE ZeroAddress

RECURSIVE FinalImplementation(_, _)
FinalImplementation(e, a) ==
    IF ImplementationOf(e, a) = ZeroAddress THEN a
    ELSE FinalImplementation(e, ImplementationOf(e, a))

\* C8: proxy unwrapping is recursive; for a chain proxy -> proxy -> implementation
\* get_contract returns the descriptor of the final implementation.
C8_FinalImplementationReturned ==
    FreshlyResolved =>
        last.ret = OwnDescriptor(env, FinalImplementation(env, last.address), last.network)

\* the last call asked for a key that a run before this one resolved
ResolvedBefore == Returned(last) /\ <<last.address, last.network>> \in DOMAIN resolved.before

\* C11: a run that starts from the persisted files alone returns, for a key that
\* an earlier run resolved, a descriptor with the address and the interface of
\* the one returned then, and looks nothing up.
C11_PersistedRoundTrip ==
    ResolvedBefore =>
        /\ last.lookups = <<>>
        /\ last.ret.address = resolved.before[<<last.address, last.network>>].address
        /\ last.ret.abi = resolved.before[<<last.address, last.network>>].abi

\* the last call was for a key that was not cached, and the interface the
\* explorer reports for its address exposes an implementation accessor
ProxyLookedUp ==
    /\ last.address # "None"
    /\ (Missed(last) \/ last.raised # "none")
    /\ FactAt(env, last.address).verified
    /\ FactAt(env, last.address).accessor

\* the accessor could not be read and slots were inspected
SlotsInspected == FactAt(env, last.address).impl_call = "ContractLogicError"

\* C20: for an interface that exposes an implementation accessor, get_contract
\* returns a descriptor whatever the call of the accessor gives and whatever
\* the storage holds; with every inspected slot zero it is the descriptor of the
\* contract itself, otherwise the first non-zero slot in the fixed order gives
\* the address of the descriptor.
C20_ProxyMissNonFatal ==
    ProxyLookedUp =>
        /\ last.raised = "none"
        /\ (SlotsInspected /\ SlotAddress(env, last.address) = ZeroAddress) =>
               last.ret = OwnDescriptor(env, last.address, last.network)
        /\ (SlotsInspected /\ SlotAddress(env, last.address) # ZeroAddress) =>
               last.ret.address = SlotAddress(env, last.address)

\* the two parts about slots alone, for the calls that returned
C20_SlotOrderWhenReturned ==
    (ProxyLookedUp /\ last.raised = "none" /\ SlotsInspected) =>
        IF SlotAddress(env, last.address) = ZeroAddress
        THEN last.ret = OwnDescriptor(env, last.address, last.network)
        ELSE last.ret.address = SlotAddress(env, last.address)

\* C23: every entry of the in-memory cache, stored under key address k, holds
\* a descriptor whose own address is k.
C23_CacheEntryTargetsItsKey ==
    \A k \in DOMAIN cache : cache[k].address = k

\* the same for the entries that init_cache builds from the persisted files
C23_ReloadedEntryTargetsItsKey ==
    (initialized /\ last.address # "None" /\ last.lookups = <<>>
        /\ last.raised = "none" /\ prev = NoCall /\ ncalls > 1) =>
        last.ret.address = last.address

-----------------------------------------------------------------------------
(* Several flows in get_contract at once.  A flow gives way to the others     *)
(* where get_contract waits for the explorer: after the cache was looked at   *)
(* and before the api call is answered.  The class attributes are shared.     *)

Flows == 1..MaxFlows

FlowIdle == [pc |-> "idle", address |-> "None", network |-> "None",
             ret |-> NoContract, raised |-> "none", lookups |-> <<>>]

InitFlows ==
    /\ env \in LedgerEnvs
    /\ initialized = FALSE
    /\ cache = FreshStorage.cache
    /\ network = "None"
    /\ files = FreshStorage.files
    /\ last = NoCall
    /\ prev = NoCall
    /\ ncalls = 0
    /\ resolved = NoneResolved
    /\ address = "0xW"
    /\ chain = NoChain
    /\ wallet = NoWallet
    /\ outcome = Idle
    /\ fees_paid = EmptyBalances
    /\ flows = [f \in Flows |-> FlowIdle]
    /\ pure = <<>>

\* get_contract up to the cache: init_cache, _switch_network, cls.cache.get
FlowCall(f) ==
    /\ flows[f].pc = "idle"
    /\ \E a \in Contracts, net \in Networks, pick \in ListdirPicks(Storage) :
          LET sw == _switch_network(init_cache(Storage, pick), net)
              hit == CacheGet(sw.rs, a)
          IN  /\ SetStorage(sw.rs)
              /\ flows' = [flows EXCEPT ![f] =
                    IF sw.raised # "none"
                    THEN [pc |-> "done", address |-> a, network |-> net,
                          ret |-> NoContract, raised |-> sw.raised, lookups |-> <<>>]
                    ELSE IF hit # NoContract
                    THEN [pc |-> "done", address |-> a, network |-> net,
                          ret |-> hit, raised |-> "none", lookups |-> <<>>]
                    ELSE [pc |-> "waiting", address |-> a, network |-> net,
                          ret |-> NoContract, raised |-> "none", lookups |-> <<>>]]
    /\ UNCHANGED <<ledgerVars, env, last, prev, ncalls, resolved, pure>>

\* get_contract from the api call on, with the class attributes as they are now
FlowResume(f) ==
    /\ flows[f].pc = "waiting"
    /\ LET returned(r) ==
               /\ SetStorage(r.rs)
               /\ flows' = [flows EXCEPT ![f] =
                     [@ EXCEPT !.pc = "done", !.ret = r.ret, !.raised = r.raised,
                               !.lookups = r.lookups]]
       IN  returned(resolve_and_store(env, Storage, flows[f].address))
    /\ UNCHANGED <<ledgerVars, env, last, prev, ncalls, resolved, pure>>

NextFlows == \E f \in Flows : FlowCall(f) \/ FlowResume(f)

SpecFlows == InitFlows /\ [][NextFlows]_vars

\* C6: when several flows resolve one key that is not cached, one lookup of the
\* key's interface is made in all and every flow receives the same descriptor.
C6_SingleLookupPerKey ==
    \A f \in Flows, g \in Flows :
        (/\ f # g
         /\ flows[f].pc = "done" /\ flows[g].pc = "done"
         /\ flows[f].raised = "none" /\ flows[g].raised = "none"
         /\ flows[f].address = flows[g].address
         /\ flows[f].network = flows[g].network
         /\ (flows[f].lookups # <<>> \/ flows[g].lookups # <<>>)) =>
            /\ LookupsOf(flows[f], <<flows[f].address, flows[f].network>>)
                 + LookupsOf(flows[g], <<flows[f].address, flows[f].network>>) = 1
            /\ flows[f].ret = flows[g].ret

-----------------------------------------------------------------------------
(* guess_abi and get_fn_name on their own, over all their inputs *)

\* the contract whose interface is guessed
Unverified == "0xC1"

\* the probes of the contract come back in every combination
ProbeEnvs ==
    {[a \in Contracts |->
         IF a = Unverified
         THEN Fact(FALSE, FALSE, o, t, "BadFunctionCallOutput", ZeroAddress, ZeroAddress)
         ELSE PlainFact]
       : o \in ProbeOutcomes, t \in ProbeOutcomes}

\* the descriptors get_contract hands out: no interface, an empty one, a guessed
\* one, a verified one
Descriptors ==
    {Contract(a, abi, net) :
        a \in {"0xC1", "0xC2"}, net \in Networks,
        abi \in {NoAbi, Abi({}), ERC20_ABI, ERC721_ABI,
                 Abi({"approve", "symbol", "implementation"})}}
    \cup {Contract(a, Abi({OwnFn(a, net), "approve", "symbol"}), net) :
            a \in {"0xC1", "0xC2"}, net \in Networks}

NotCalled == [called |-> FALSE, ret |-> NoContract, raised |-> "none"]

InitPure ==
    /\ env \in ProbeEnvs
    /\ initialized = TRUE
    /\ cache = FreshStorage.cache
    /\ network \in Networks
    /\ files = FreshStorage.files
    /\ last = NoCall
    /\ prev = NoCall
    /\ ncalls = 0
    /\ resolved = NoneResolved
    /\ address = "0xW"
    /\ chain = NoChain
    /\ wallet = NoWallet
    /\ outcome = Idle
    /\ fees_paid = EmptyBalances
    /\ flows = <<>>
    /\ \E c \in Descriptors, sel \in Selectors :
          pure = [contract |-> c, fn_selector |-> sel,
                  guess |-> NotCalled, fn_name |-> "None"]

\* ContractStorage.guess_abi(contract_address)
GuessAbi ==
    /\ ~pure.guess.called
    /\ LET r == guess_abi(env, Storage, Unverified)
       IN  pure' = [pure EXCEPT !.guess =
                       [called |-> TRUE, ret |-> r.ret, raised |-> r.raised]]
    /\ UNCHANGED <<ledgerVars, resolverVars, flows>>

\* ContractStorage.get_fn_name(contract, fn_selector)
GetFnName ==
    /\ pure.fn_name = "None"
    /\ pure' = [pure EXCEPT !.fn_name = get_fn_name(pure.contract, pure.fn_selector)]
    /\ UNCHANGED <<ledgerVars, resolverVars, flows>>

NextPure == GuessAbi \/ GetFnName

SpecPure == InitPure /\ [][NextPure]_vars

\* C9: guess_abi returns a descriptor for every combination of probe outcomes and
\* never raises: the non-fungible interface if ownerOf succeeds or reverts for
\* logic reasons, else the fungible interface if totalSupply succeeds or reverts
\* for logic reasons, else no interface.
C9_GuessAlwaysReturns ==
    pure.guess.called =>
        /\ pure.guess.raised = "none"
        /\ pure.guess.ret = OwnDescriptor(env, Unverified, network)

\* the functions of the descriptor's interface that have the selector
C10_Named(contract, fn_selector) ==
    {fn \in FnNames : fn \in contract.abi.fns /\ SelectorOf(fn) = fn_selector}

\* C10: get_fn_name returns the function's name when the descriptor's interface
\* is known and contains the selector, and the selector unchanged otherwise; it
\* never fails.
C10_GetFnNameTotal ==
    pure.fn_name # "None" =>
        /\ pure.fn_name # "ValueError"
        /\ IF pure.contract.abi.known /\ C10_Named(pure.contract, pure.fn_selector) # {}
           THEN pure.fn_name \in C10_Named(pure.contract, pure.fn_selector)
           ELSE pure.fn_name = pure.fn_selector

\* get_fn_name was given a known interface that lacks the selector, and returned
\* the selector
C10_Witness ==
    /\ pure.fn_name # "None"
    /\ pure.contract.abi.known
    /\ pure.contract.abi.fns # {}
    /\ C10_Named(pure.contract, pure.fn_selector) = {}
    /\ pure.fn_name = pure.fn_selector

-----------------------------------------------------------------------------
(* Transfers built from raw provider values and replayed: the arithmetic of
   TokenTransfer.__init__ and of the credit in replay_transfers. *)

\* raw "value" strings of a listing, as the integers they spell
RawValues == {0, 1, 5, 10000, 12345, 99995}

\* "tokenDecimal" strings; None where the caller has no decimals to pass
TokenDecimals == {"None", "0", "1", "2"}

RawInputs == [value : RawValues, token_decimals : TokenDecimals]

\* the last operation on the wallet, how many replays it has seen, and what
\* it held when the last replay was called
NotReplayed == [op |-> "none", raised |-> "none", replays |-> 0,
                held |-> EmptyBalances, replayed |-> <<>>]

InitNumeric ==
    /\ address = "0xW"
    /\ chain = NoChain
    /\ wallet = [address |-> "0xW", network |-> "AVAX", transfers |-> <<>>,
                 balances |-> EmptyBalances]
    /\ outcome = NotReplayed
    /\ fees_paid = EmptyBalances
    /\ env = [a \in Contracts |-> PlainFact]
    /\ initialized = FALSE
    /\ cache = FreshStorage.cache
    /\ network = "None"
    /\ files = FreshStorage.files
    /\ last = NoCall
    /\ prev = NoCall
    /\ ncalls = 0
    /\ resolved = NoneResolved
    /\ flows = <<>>
    /\ \E n \in 1..MaxBuilt : pure \in [1..n -> RawInputs]

\* wallet.add_transfer(TokenTransfer(...)) of the next raw record: a token
\* sent by a contract to the wallet, in a transaction the contract pays for
AddTransfer ==
    /\ Len(wallet.transfers) < Len(pure)
    /\ LET i == Len(wallet.transfers) + 1
           built == TokenTransfer("0xc1", Lower(wallet.address),
                                  ToDecimal(pure[i].value), 0, 0, wallet.network,
                                  "TKN", pure[i].token_decimals, "ERC20", i,
                                  IF i = 1 THEN "0xh1" ELSE "0xh2")
       IN  wallet' = [wallet EXCEPT !.transfers = Append(@, built)]
    /\ outcome' = [outcome EXCEPT !.op = "add_transfer", !.raised = "none"]
    /\ UNCHANGED <<address, chain, fees_paid, resolverVars, flows, pure>>

\* wallet.replay_transfers(), on the transfers the wallet holds by now
ReplayBuilt ==
    /\ outcome.replays < MaxReplays
    /\ wallet.transfers # <<>>
    /\ LET returned(r) ==
               /\ wallet' = [wallet EXCEPT !.balances = r.balances]
               /\ outcome' = [op |-> "replay",
                              raised |-> IF r.raised THEN "AssertionError" ELSE "none",
                              replays |-> outcome.replays + 1,
                              held |-> wallet.balances,
                              replayed |-> outcome.replayed \o <<Len(wallet.transfers)>>]
               /\ fees_paid' = r.fees_paid
       IN  returned(replay_wallet(wallet))
    /\ UNCHANGED <<address, chain, resolverVars, flows, pure>>

NextNumeric == AddTransfer \/ ReplayBuilt

SpecNumeric == InitNumeric /\ [][NextNumeric]_vars

\* v / 10^d in quanta, v itself when the decimals are absent
ExactValue(raw) ==
    IF raw.token_decimals = "None" THEN ToDecimal(raw.value)
    ELSE ToDecimal(raw.value) \div Pow10(IntOf(raw.token_decimals))

RECURSIVE ExactSum(_, _)
ExactSum(raws, n) == IF n = 0 THEN 0 ELSE ExactSum(raws, n - 1) + ExactValue(raws[n])

NumericReplayed == outcome.op = "replay" /\ Len(pure) > 0 /\ wallet.network = "AVAX"
                   /\ Len(wallet.transfers) = Len(pure) /\ chain = NoChain

\* C19: a transfer built from raw value v and decimals d stores v / 10^d (v
\* itself without decimals), never a negative value, and the replay of
\* transfers into the wallet leaves the token's balance at the sum of exactly
\* these amounts.
C19_StoredAndCreditedExactly ==
    /\ (Len(pure) > 0 /\ chain = NoChain
           /\ outcome.op \in {"none", "add_transfer", "replay"}) =>
          \A i \in 1..Len(wallet.transfers) :
              /\ wallet.transfers[i].value >= 0
              /\ wallet.transfers[i].value = ExactValue(pure[i])
    /\ NumericReplayed =>
          /\ outcome.raised = "none"
          /\ BalGet(wallet.balances, "TKN") = ExactSum(pure, Len(pure))

\* the example of the claim: raw "10000" with decimals 2 gives 100.00
C19_Example ==
    (NumericReplayed /\ Len(pure) = 1 /\ pure[1] = [value |-> 10000, token_decimals |-> "2"]) =>
        /\ wallet.transfers[1].value = ToDecimal(100)
        /\ BalGet(wallet.balances, "TKN") = ToDecimal(100)

\* C22: a replay starts from empty balances: whatever the wallet held when
\* replay_transfers was called, from an earlier replay of the same list or of a
\* shorter one, the balances after the call are those of a replay of the
\* wallet's whole list on a wallet never replayed.
C22_ReplayFromScratch ==
    (outcome.op = "replay" /\ Len(pure) > 0 /\ chain = NoChain
        /\ wallet.network = "AVAX") =>
        /\ wallet.balances = replay_transfers(wallet.transfers, wallet.address).balances
        /\ (outcome.raised = "none") =
              ~replay_transfers(wallet.transfers, wallet.address).raised

\* the wallet held a balance when it was replayed, once after a replay of the
\* same list ...
C22_SameList ==
    /\ outcome.op = "replay" /\ chain = NoChain /\ Len(pure) > 0
    /\ outcome.replays = 2
    /\ outcome.replayed[1] = outcome.replayed[2]
    /\ BalGet(outcome.held, "TKN") > 0

\* ... and once after a replay of a shorter list, to which a transfer with a
\* value was added
C22_Witness ==
    /\ outcome.op = "replay" /\ chain = NoChain /\ Len(pure) > 0
    /\ outcome.replays = 2
    /\ outcome.replayed[1] < outcome.replayed[2]
    /\ BalGet(outcome.held, "TKN") > 0
    /\ wallet.transfers[Len(wallet.transfers)].value > 0

====
